---- MODULE Spec2Model ----
(***************************************************************************)
(* Model of lilypond_generator.py (src/main.py): the scale note generator  *)
(* (get_note_index, next_note, generate_scale_notes) and the batch run of  *)
(* the script (validation, deletion of old artifacts, LilyPond file        *)
(* generation and compilation, PDF to PNG conversion, image compositing).  *)
(*                                                                         *)
(* Two specifications share the variables:                                 *)
(*   SpecFn  calls the pure functions on inputs drawn from bounded sets;   *)
(*   Spec    is one run of the __main__ block.                             *)
(***************************************************************************)
EXTENDS Integers, Sequences, FiniteSets, TLC

VARIABLES
    call,               \* SpecFn: the function call last made and its arguments
    ret,                \* SpecFn: what that call returned
    key,                \* __main__: key
    octaves,            \* __main__: octaves
    scales_to_generate, \* __main__: scales_to_generate
    pc,                 \* position of the process
    loop_i,             \* __main__: 1-based position of the for loop over scales_to_generate
    fs,                 \* the working directory: filename -> "old" | "new" | "absent"
    ly_notes,           \* notes written into each .ly file of this run
    events,             \* file writes and external tool invocations, in order
    stdout,             \* messages printed, in order
    exit_code           \* -1 while running, 0 after a normal end, 1 after sys.exit(1)

vars == <<call, ret, key, octaves, scales_to_generate, pc, loop_i, fs,
          ly_notes, events, stdout, exit_code>>

----------------------------------------------------------------------------
(* Static tables                                                           *)

SCALE_INTERVALS ==
    ("major" :> <<2, 2, 1, 2, 2, 2, 1>>) @@
    ("minor" :> <<2, 1, 2, 2, 1, 2, 2>>) @@
    ("harmonic_minor" :> <<2, 1, 2, 2, 1, 3, 1>>)

NOTE_ORDER == <<"c", "c#", "d", "d#", "e", "f", "f#", "g", "g#", "a", "a#", "b">>

SCALE_TYPES == <<"major", "harmonic_minor">>

\* enharmonic with one flat mapped to the wrong sharp-table entry
enharmonic_misspelled ==
    ("db" :> "c#") @@ ("eb" :> "d#") @@ ("gb" :> "f#") @@ ("ab" :> "g#") @@
    ("bb" :> "a#") @@ ("cb" :> "b") @@ ("fb" :> "f")

enharmonic ==
    ("db" :> "c#") @@ ("eb" :> "d#") @@ ("gb" :> "f#") @@ ("ab" :> "g#") @@
    ("bb" :> "a#") @@ ("cb" :> "b") @@ ("fb" :> "e")

MIN_OCTAVES == 1
MAX_OCTAVES == 4

----------------------------------------------------------------------------
(* Python built-ins used by the code                                       *)

Range(s) == {s[i] : i \in 1..Len(s)}

\* str.lower(), on the note names the model feeds to the program
UpperCased ==
    ("C" :> "c") @@ ("C#" :> "c#") @@ ("D" :> "d") @@ ("F#" :> "f#") @@
    ("G" :> "g") @@ ("A#" :> "a#") @@ ("B" :> "b") @@
    ("Eb" :> "eb") @@ ("EB" :> "eb") @@ ("Bb" :> "bb") @@ ("Cb" :> "cb") @@
    ("XYZ" :> "xyz") @@ ("H" :> "h")

Lower(s) == IF s \in DOMAIN UpperCased THEN UpperCased[s] ELSE s

\* list.index(x): 0-based position of the first occurrence
ListIndex(s, x) == (CHOOSE i \in 1..Len(s) : s[i] = x /\ \A j \in 1..(i-1) : s[j] # x) - 1

\* s[::-1]
Reversed(s) == [i \in 1..Len(s) |-> s[Len(s) + 1 - i]]

\* s[1:]
DropFirst(s) == IF Len(s) = 0 THEN <<>> ELSE Tail(s)

\* s[:-1]
DropLast(s) == IF Len(s) = 0 THEN <<>> ELSE SubSeq(s, 1, Len(s) - 1)

----------------------------------------------------------------------------
(* get_note_index, next_note                                               *)

\* the else branch of get_note_index: the note is in neither table
note_not_recognized(note) ==
    LET n == Lower(note) IN n \notin Range(NOTE_ORDER) /\ n \notin DOMAIN enharmonic

\* get_note_index without note = note.lower()
get_note_index_case_sensitive(note) ==
    IF note \in Range(NOTE_ORDER) THEN ListIndex(NOTE_ORDER, note)
    ELSE IF note \in DOMAIN enharmonic THEN ListIndex(NOTE_ORDER, enharmonic[note])
    ELSE ListIndex(NOTE_ORDER, "c")

get_note_index(note) ==
    LET n == Lower(note) IN
    IF n \in Range(NOTE_ORDER) THEN ListIndex(NOTE_ORDER, n)
    ELSE IF n \in DOMAIN enharmonic THEN ListIndex(NOTE_ORDER, enharmonic[n])
    ELSE ListIndex(NOTE_ORDER, "c")

\* what get_note_index prints
get_note_index_prints(note) ==
    IF note_not_recognized(note) THEN <<"warning_note_not_recognized">> ELSE <<>>

next_note(current_note, interval) ==
    LET index == get_note_index(current_note)
        next_index == (index + interval) % Len(NOTE_ORDER)
    IN NOTE_ORDER[next_index + 1]

----------------------------------------------------------------------------
(* generate_scale_notes                                                    *)

scale_type_supported(scale_type) == scale_type \in DOMAIN SCALE_INTERVALS

\* "for interval in intervals: note = next_note(note, interval); append(note)"
RECURSIVE walk_intervals(_, _)
walk_intervals(current_note, intervals) ==
    IF intervals = <<>> THEN <<>>
    ELSE LET n == next_note(current_note, Head(intervals))
         IN <<n>> \o walk_intervals(n, Tail(intervals))

\* the notes handed to next_note by that loop, in order
walk_inputs(current_note, intervals) ==
    DropLast(<<current_note>> \o walk_intervals(current_note, intervals))

\* scale after "Generate one octave first"
one_octave(k, intervals) ==
    LET current_note == Lower(k)
    IN <<current_note>> \o walk_intervals(current_note, intervals)

\* extra_octaves restarting each octave: the starting note is appended again
RECURSIVE extra_octaves_restart(_, _, _)
extra_octaves_restart(scale, intervals, n) ==
    IF n <= 0 THEN <<>>
    ELSE LET starting_note == scale[Len(scale)]
         IN <<starting_note>> \o walk_intervals(starting_note, intervals)
                \o extra_octaves_restart(scale, intervals, n - 1)

\* the notes appended by "for _ in range(1, octaves)"
RECURSIVE extra_octaves(_, _, _)
extra_octaves(scale, intervals, n) ==
    IF n <= 0 THEN <<>>
    ELSE LET starting_note == scale[Len(scale)]
         IN walk_intervals(starting_note, intervals) \o extra_octaves(scale, intervals, n - 1)

full_scale(k, intervals, n_octaves) ==
    LET scale == one_octave(k, intervals)
    IN scale \o extra_octaves(scale, intervals, n_octaves - 1)

\* descending_scale without the [1:]
descending_keeps_top(full) == Reversed(full)

\* descending_scale with [:-1] in place of [1:]
descending_drops_bottom(full) == DropLast(Reversed(full))

descending_scale(full) == DropFirst(Reversed(full))

combined_scale(k, scale_type, n_octaves) ==
    LET full == full_scale(k, SCALE_INTERVALS[scale_type], n_octaves)
    IN full \o descending_scale(full)

\* the tokens f"{note}4"; the returned string is these joined by single spaces
notes_with_rhythm(combined) == [i \in 1..Len(combined) |-> combined[i] \o "4"]

generate_scale_notes(k, scale_type, n_octaves) ==
    notes_with_rhythm(combined_scale(k, scale_type, n_octaves))

\* what generate_scale_notes prints for a supported scale type: the warnings of
\* its get_note_index calls
RECURSIVE prints_of(_)
prints_of(notes) ==
    IF notes = <<>> THEN <<>>
    ELSE get_note_index_prints(Head(notes)) \o prints_of(Tail(notes))

RECURSIVE extra_octaves_inputs(_, _, _)
extra_octaves_inputs(scale, intervals, n) ==
    IF n <= 0 THEN <<>>
    ELSE walk_inputs(scale[Len(scale)], intervals) \o extra_octaves_inputs(scale, intervals, n - 1)

generate_scale_notes_prints(k, scale_type, n_octaves) ==
    LET intervals == SCALE_INTERVALS[scale_type]
        scale == one_octave(k, intervals)
    IN prints_of(walk_inputs(Lower(k), intervals)
                 \o extra_octaves_inputs(scale, intervals, n_octaves - 1))

----------------------------------------------------------------------------
(* Inputs of the function-level specification                              *)

NoteInputs ==
    Range(NOTE_ORDER) \cup DOMAIN enharmonic \cup DOMAIN UpperCased
        \cup {"xyz", "h", "e#", "b#"}

MaxInterval == 3
IntervalInputs == 1..MaxInterval

ScaleTypeInputs == DOMAIN SCALE_INTERVALS \cup {"blues"}

OctaveInputs == (MIN_OCTAVES - 1)..(MAX_OCTAVES + 1)

NoCall == [fn |-> "none", note |-> "", interval |-> 0, scale_type |-> "", octaves |-> 0]
NoRet == [index |-> -1, note |-> "", combined_scale |-> <<>>, notes_with_rhythm |-> <<>>]

\* the files of the working directory the program names
MainScaleTypes == {"major", "harmonic_minor", "blues"}

FileNames ==
    {st \o "_scale" \o ext : st \in MainScaleTypes,
                             ext \in {".ly", ".pdf", ".midi", ".png"}}
        \cup {"combined_scales.png"}

MainIdle ==
    /\ key = "c"
    /\ octaves = 2
    /\ scales_to_generate = SCALE_TYPES
    /\ loop_i = 0
    /\ fs = [f \in FileNames |-> "absent"]
    /\ ly_notes = [f \in {} |-> <<>>]
    /\ events = <<>>

InitFn ==
    /\ call = NoCall
    /\ ret = NoRet
    /\ pc = "fn"
    /\ stdout = <<>>
    /\ exit_code = -1
    /\ MainIdle

MainUnchanged == UNCHANGED <<key, octaves, scales_to_generate, loop_i, fs, ly_notes, events>>

\* get_note_index(note); stdout holds what the call printed
CallGetNoteIndex(note) ==
    /\ pc = "fn"
    /\ call' = [NoCall EXCEPT !.fn = "get_note_index", !.note = note]
    /\ ret' = [NoRet EXCEPT !.index = get_note_index(note)]
    /\ stdout' = get_note_index_prints(note)
    /\ UNCHANGED <<pc, exit_code>>
    /\ MainUnchanged

\* next_note(current_note, interval)
CallNextNote(current_note, interval) ==
    /\ pc = "fn"
    /\ call' = [NoCall EXCEPT !.fn = "next_note", !.note = current_note, !.interval = interval]
    /\ ret' = [NoRet EXCEPT !.note = next_note(current_note, interval)]
    /\ stdout' = get_note_index_prints(current_note)
    /\ UNCHANGED <<pc, exit_code>>
    /\ MainUnchanged

\* generate_scale_notes(key, scale_type, octaves).  The functions keep no state
\* between calls, so it is explored as the first call only.
CallGenerateScaleNotes(k, scale_type, n_octaves) ==
    /\ pc = "fn"
    /\ call.fn = "none"
    /\ call' = [NoCall EXCEPT !.fn = "generate_scale_notes", !.note = k,
                              !.scale_type = scale_type, !.octaves = n_octaves]
    /\ IF ~scale_type_supported(scale_type)
       THEN /\ ret' = NoRet
            /\ stdout' = <<"error_scale_type_not_supported">>
            /\ pc' = "exit"
            /\ exit_code' = 1
       ELSE /\ ret' = [NoRet EXCEPT
                          !.combined_scale = combined_scale(k, scale_type, n_octaves),
                          !.notes_with_rhythm = generate_scale_notes(k, scale_type, n_octaves)]
            /\ stdout' = generate_scale_notes_prints(k, scale_type, n_octaves)
            /\ UNCHANGED <<pc, exit_code>>
    /\ MainUnchanged

NextFn ==
    \/ \E note \in NoteInputs : CallGetNoteIndex(note)
    \/ \E note \in NoteInputs, interval \in IntervalInputs : CallNextNote(note, interval)
    \/ \E k \in NoteInputs, scale_type \in ScaleTypeInputs, n_octaves \in OctaveInputs :
          CallGenerateScaleNotes(k, scale_type, n_octaves)

SpecFn == InitFn /\ [][NextFn]_vars

----------------------------------------------------------------------------
(* One run of the __main__ block                                           *)

MaxOldFiles == 2
MaxScales == 2

\* the key of the script; the run does not branch on it
MainKeys == {"c"}

\* scales_to_generate: lists of distinct scale types, SCALE_TYPES among them
ScaleLists ==
    {sl \in UNION {[1..n -> MainScaleTypes] : n \in 0..MaxScales} :
        \A i, j \in 1..Len(sl) : i # j => sl[i] # sl[j]}

OldFileSets == {S \in SUBSET FileNames : Cardinality(S) <= MaxOldFiles}

Init ==
    /\ call = NoCall
    /\ ret = NoRet
    /\ key \in MainKeys
    /\ octaves \in OctaveInputs
    /\ scales_to_generate \in ScaleLists
    /\ pc = "validate"
    /\ loop_i = 0
    /\ \E old \in OldFileSets : fs = [f \in FileNames |-> IF f \in old THEN "old" ELSE "absent"]
    /\ ly_notes = [f \in {} |-> <<>>]
    /\ events = <<>>
    /\ stdout = <<>>
    /\ exit_code = -1

\* os.path.exists
exists(f) == fs[f] # "absent"

\* print(...); sys.exit(1)
Fatal(msg) ==
    /\ stdout' = Append(stdout, msg)
    /\ pc' = "exit"
    /\ exit_code' = 1

\* ValidateOctaves checking the upper limit only
ValidateOctavesUpperOnly ==
    /\ pc = "validate"
    /\ IF ~(octaves <= MAX_OCTAVES)
       THEN Fatal("Error: Number of octaves must be an integer between 1 and 4.")
       ELSE /\ pc' = "delete"
            /\ UNCHANGED <<stdout, exit_code>>
    /\ UNCHANGED <<call, ret, key, octaves, scales_to_generate, loop_i, fs, ly_notes, events>>

\* "Validate octaves input"
ValidateOctaves ==
    /\ pc = "validate"
    /\ IF ~(MIN_OCTAVES <= octaves /\ octaves <= MAX_OCTAVES)
       THEN Fatal("Error: Number of octaves must be an integer between 1 and 4.")
       ELSE /\ pc' = "delete"
            /\ UNCHANGED <<stdout, exit_code>>
    /\ UNCHANGED <<call, ret, key, octaves, scales_to_generate, loop_i, fs, ly_notes, events>>

\* existing_files built by delete_existing_output_files
RECURSIVE existing_files(_)
existing_files(scale_types) ==
    IF scale_types = <<>> THEN <<"combined_scales.png">>
    ELSE LET base == Head(scale_types) \o "_scale"
         IN <<base \o ".ly", base \o ".pdf", base \o ".midi", base \o ".png">>
                \o existing_files(Tail(scale_types))

\* messages of delete_existing_files for the first n filenames
RECURSIVE deleted_messages(_, _)
deleted_messages(filenames, n) ==
    IF n = 0 THEN <<>>
    ELSE deleted_messages(filenames, n - 1)
            \o (IF exists(filenames[n])
                THEN <<"Deleted existing file: " \o filenames[n]>> ELSE <<>>)

\* the position in scales_to_generate after this one, and where the run goes
AdvanceLoop(i) ==
    /\ loop_i' = i
    /\ pc' = IF i > Len(scales_to_generate) THEN "check_png" ELSE "generate"

\* delete_existing_files skipping a file whose os.remove raises
DeleteSkippingFailures ==
    /\ pc = "delete"
    /\ LET filenames == existing_files(scales_to_generate) IN
       \E kept \in SUBSET {f \in Range(filenames) : exists(f)} :
          /\ fs' = [f \in FileNames |->
                       IF f \in Range(filenames) \ kept THEN "absent" ELSE fs[f]]
          /\ stdout' = stdout \o deleted_messages(filenames, Len(filenames))
          /\ AdvanceLoop(1)
          /\ UNCHANGED exit_code
    /\ UNCHANGED <<call, ret, key, octaves, scales_to_generate, ly_notes, events>>

\* delete_existing_output_files(scales_to_generate): os.remove of an existing
\* file either succeeds or raises at filename number fail (0: none raises)
DeleteExistingOutputFiles ==
    /\ pc = "delete"
    /\ LET filenames == existing_files(scales_to_generate) IN
       \E fail \in 0..Len(filenames) :
          /\ fail # 0 => exists(filenames[fail])
          /\ LET removed == IF fail = 0 THEN Range(filenames)
                            ELSE {filenames[j] : j \in 1..(fail - 1)}
             IN fs' = [f \in FileNames |-> IF f \in removed THEN "absent" ELSE fs[f]]
          /\ IF fail = 0
             THEN /\ stdout' = stdout \o deleted_messages(filenames, Len(filenames))
                  /\ AdvanceLoop(1)
                  /\ UNCHANGED exit_code
             ELSE /\ stdout' = stdout \o deleted_messages(filenames, fail - 1)
                                \o <<"Error deleting file: " \o filenames[fail]>>
                  /\ pc' = "exit"
                  /\ exit_code' = 1
                  /\ UNCHANGED loop_i
    /\ UNCHANGED <<call, ret, key, octaves, scales_to_generate, ly_notes, events>>

Event(op, arg, result) == [op |-> op, arg |-> arg, result |-> result]

\* generate_lilypond from "Write the content to the specified file" on:
\* write_result is the outcome of open/write, compile_result that of
\* subprocess.run(['lilypond', filename], check=True)
WriteAndCompile(scale_type, notes, out) ==
    LET base_filename == scale_type \o "_scale"
        filename == base_filename \o ".ly"
    IN
    \E write_result \in {"ok", "ioerror"} :
       IF write_result = "ioerror"
       THEN /\ stdout' = Append(out, "Error writing to file " \o filename)
            /\ pc' = "exit"
            /\ exit_code' = 1
            /\ UNCHANGED <<fs, ly_notes, events>>
       ELSE
         \E compile_result \in {"ok", "nonzero", "missing"} :
            /\ ly_notes' = (filename :> notes) @@ ly_notes
            /\ events' = events \o <<Event("write", filename, "ok"),
                                     Event("lilypond", filename, compile_result)>>
            /\ IF compile_result = "ok"
               THEN /\ fs' = [fs EXCEPT ![filename] = "new",
                                        ![base_filename \o ".pdf"] = "new",
                                        ![base_filename \o ".midi"] = "new"]
                    /\ stdout' = out \o <<"LilyPond file has been generated successfully.",
                                          "Compiling the LilyPond file",
                                          "Compilation successful.">>
                    /\ pc' = "convert"
                    /\ UNCHANGED exit_code
               ELSE /\ fs' = [fs EXCEPT ![filename] = "new"]
                    /\ stdout' = out \o <<"LilyPond file has been generated successfully.",
                                          "Compiling the LilyPond file",
                                          IF compile_result = "nonzero"
                                          THEN "An error occurred while compiling"
                                          ELSE "Error: LilyPond is not installed or not found in PATH."
                                        >>
                    /\ pc' = "exit"
                    /\ exit_code' = 1

\* ScaleTypeError without the sys.exit(1): generate_lilypond goes on with no notes
ScaleTypeErrorGoesOn(scale_type, out) ==
    WriteAndCompile(scale_type, <<>>, Append(out, "Error: Scale type is not supported."))

\* generate_scale_notes on a scale type outside SCALE_INTERVALS:
\* print the error and sys.exit(1)
ScaleTypeError(scale_type, out) ==
    /\ stdout' = Append(out, "Error: Scale type is not supported.")
    /\ pc' = "exit"
    /\ exit_code' = 1
    /\ UNCHANGED <<fs, ly_notes, events>>

\* generate_lilypond(ly_filename, scale_type, key, octaves) for the scale type
\* at the loop position
GenerateLilypond ==
    /\ pc = "generate"
    /\ loop_i <= Len(scales_to_generate)
    /\ LET scale_type == scales_to_generate[loop_i]
           generating == Append(stdout, "Generating " \o scale_type)
       IN
       IF ~scale_type_supported(scale_type)
       THEN ScaleTypeError(scale_type, generating)
       ELSE WriteAndCompile(scale_type,
                            generate_scale_notes(key, scale_type, octaves),
                            generating \o generate_scale_notes_prints(key, scale_type, octaves))
    /\ UNCHANGED <<call, ret, key, octaves, scales_to_generate, loop_i>>

\* ConvertFailed without the sys.exit(1): the loop goes on
ConvertFailedGoesOn(out) ==
    /\ stdout' = out
    /\ AdvanceLoop(loop_i + 1)
    /\ UNCHANGED <<fs, exit_code>>

\* the except branches of convert_pdf_to_png: print the error and sys.exit(1)
ConvertFailed(out) ==
    /\ stdout' = out
    /\ pc' = "exit"
    /\ exit_code' = 1
    /\ UNCHANGED <<fs, loop_i>>

\* convert_pdf_to_png(pdf_filename, png_filename): convert_result is the outcome
\* of subprocess.run(['convert', ...], check=True)
ConvertPdfToPng ==
    /\ pc = "convert"
    /\ LET base == scales_to_generate[loop_i] \o "_scale"
           pdf_file == base \o ".pdf"
           png_file == base \o ".png"
       IN
       \E convert_result \in {"ok", "nonzero", "missing"} :
          /\ events' = Append(events, Event("convert", pdf_file, convert_result))
          /\ IF convert_result = "ok"
             THEN /\ fs' = [fs EXCEPT ![png_file] = "new"]
                  /\ stdout' = stdout \o <<"Converting using ImageMagick", "Conversion successful."
                                         >>
                  /\ AdvanceLoop(loop_i + 1)
                  /\ UNCHANGED exit_code
             ELSE ConvertFailed(stdout \o <<"Converting using ImageMagick",
                                            IF convert_result = "nonzero"
                                            THEN "An error occurred while converting"
                                            ELSE "Error: ImageMagick's 'convert' command is not installed or not found in PATH."
                                          >>)
    /\ UNCHANGED <<call, ret, key, octaves, scales_to_generate, ly_notes>>

\* "Check if both PNG files exist"
CheckPngFiles ==
    /\ pc = "check_png"
    /\ IF ~(exists("major_scale.png") /\ exists("harmonic_minor_scale.png"))
       THEN Fatal("Error: Required PNG files not found.")
       ELSE /\ pc' = "combine"
            /\ UNCHANGED <<stdout, exit_code>>
    /\ UNCHANGED <<call, ret, key, octaves, scales_to_generate, loop_i, fs, ly_notes, events>>

\* combine_images_with_text(major_png, harmonic_minor_png, combined_image_path, text):
\* combine_result is whether Pillow raised
CombineImagesWithText ==
    /\ pc = "combine"
    /\ \E combine_result \in {"ok", "error"} :
          /\ events' = Append(events, Event("combine", "combined_scales.png", combine_result))
          /\ IF combine_result = "ok"
             THEN /\ fs' = [fs EXCEPT !["combined_scales.png"] = "new"]
                  /\ stdout' = Append(stdout, "Combined image saved")
                  /\ pc' = "finish"
                  /\ UNCHANGED exit_code
             ELSE /\ Fatal("Error combining images")
                  /\ UNCHANGED fs
    /\ UNCHANGED <<call, ret, key, octaves, scales_to_generate, loop_i, ly_notes>>

SuccessMessage == "All scales have been generated, compiled, converted, and combined successfully."

\* the last print of the script, then the interpreter ends
Finish ==
    /\ pc = "finish"
    /\ stdout' = Append(stdout, SuccessMessage)
    /\ pc' = "done"
    /\ exit_code' = 0
    /\ UNCHANGED <<call, ret, key, octaves, scales_to_generate, loop_i, fs, ly_notes, events>>

Next ==
    \/ ValidateOctaves
    \/ DeleteExistingOutputFiles
    \/ GenerateLilypond
    \/ ConvertPdfToPng
    \/ CheckPngFiles
    \/ CombineImagesWithText
    \/ Finish

Spec == Init /\ [][Next]_vars

----------------------------------------------------------------------------
(* Properties of the note functions (SpecFn)                               *)

\* the call last made is generate_scale_notes and it returned
Generated == call.fn = "generate_scale_notes" /\ exit_code = -1

\* the ascending part of an ascending ++ descending sequence
Ascending(seq) == SubSeq(seq, 1, (Len(seq) + 1) \div 2)

\* sum of the first i intervals of the pattern repeated cyclically
RECURSIVE CyclicSum(_, _)
CyclicSum(pattern, i) ==
    IF i = 0 THEN 0
    ELSE pattern[((i - 1) % Len(pattern)) + 1] + CyclicSum(pattern, i - 1)

ValidOctaves == MIN_OCTAVES..MAX_OCTAVES

\* C1: for a starting note of NOTE_ORDER, a supported scale type and 1..4
\* octaves, the ascending part has octaves*steps + 1 notes, starts at the root
\* and its position i is NOTE_ORDER[(rootIndex + sum of the first i intervals
\* of the pattern repeated cyclically) mod 12]: octaves chain, they do not restart.
C1_ChainedWalk ==
    (Generated /\ call.note \in Range(NOTE_ORDER) /\ call.octaves \in ValidOctaves) =>
        LET asc == Ascending(ret.combined_scale)
            pattern == SCALE_INTERVALS[call.scale_type]
            rootIndex == CHOOSE r \in 0..11 : NOTE_ORDER[r + 1] = call.note
        IN /\ Len(asc) = call.octaves * Len(pattern) + 1
           /\ \A i \in 0..(Len(asc) - 1) :
                 asc[i + 1] = NOTE_ORDER[((rootIndex + CyclicSum(pattern, i)) % 12) + 1]

C1_Witness ==
    /\ Generated
    /\ call.note = "g" /\ call.scale_type = "harmonic_minor" /\ call.octaves = 2
    /\ Ascending(ret.combined_scale) =
          <<"g", "a", "a#", "c", "d", "d#", "f#", "g", "a", "a#", "c", "d", "d#", "f#", "g">>

\* C2: for every starting note, supported scale type and 1..4 octaves the
\* returned sequence has exactly 2*(octaves*stepsPerOctave + 1) - 1 tokens.
C2_SequenceLength ==
    (Generated /\ call.octaves \in ValidOctaves) =>
        Len(ret.notes_with_rhythm) =
            2 * (call.octaves * Len(SCALE_INTERVALS[call.scale_type]) + 1) - 1

C2_Witness ==
    /\ Generated
    /\ call.note = "c" /\ call.scale_type = "major" /\ call.octaves = 1
    /\ Len(ret.notes_with_rhythm) = 15
    /\ ret.notes_with_rhythm[1] = "c4"

\* C3: the returned sequence is ascending ++ descending with descending the
\* reverse of ascending without its first (top) element: the sequence has odd
\* length 2n - 1 and position n + i mirrors position n - i.
C3_DescendingMirrorsAscending ==
    Generated =>
        LET c == ret.combined_scale
            n == Len(Ascending(c))
        IN /\ Len(c) = 2 * n - 1
           /\ \A i \in 1..(n - 1) : c[n + i] = c[n - i]

C3_Witness ==
    /\ Generated
    /\ ret.combined_scale =
          <<"c", "d", "e", "f", "g", "a", "b", "c", "b", "a", "g", "f", "e", "d", "c">>

\* C4: every note name of the produced sequence, the first and the last
\* included, is an entry of NOTE_ORDER, and the first note has the name of the
\* top note of each octave.
C4_AllNotesCanonical ==
    Generated =>
        LET c == ret.combined_scale
            steps == Len(SCALE_INTERVALS[call.scale_type])
            n == Len(Ascending(c))
        IN /\ \A i \in 1..Len(c) : c[i] \in Range(NOTE_ORDER)
           /\ \A j \in 1..n : ((j - 1) % steps = 0) => c[j] = c[1]

\* two note names that differ by case only
SameIgnoringCase(a, b) == Lower(a) = Lower(b)

\* a name that is neither in NOTE_ORDER nor a key of enharmonic, whatever its case
Unrecognized(note) ==
    \A m \in Range(NOTE_ORDER) \cup DOMAIN enharmonic : ~SameIgnoringCase(note, m)

\* C5: get_note_index of an unrecognized name returns 0, the index of 'c',
\* and the process goes on; two names that differ by case only get the same index.
C5_UnknownNoteDefaultsToC ==
    [][call'.fn = "get_note_index" =>
         /\ Unrecognized(call'.note) =>
               (ret'.index = 0 /\ NOTE_ORDER[ret'.index + 1] = "c"
                  /\ exit_code' = -1 /\ pc' = "fn")
         /\ (call.fn = "get_note_index" /\ SameIgnoringCase(call.note, call'.note)) =>
               ret'.index = ret.index]_vars

C5_Witness ==
    /\ call.fn = "get_note_index" /\ call.note = "XYZ"
    /\ ret.index = 0
    /\ stdout = <<"warning_note_not_recognized">>
    /\ exit_code = -1

\* pitch class of each flat spelling: the letter's pitch class minus one
FlatPitchClass ==
    ("db" :> 1) @@ ("eb" :> 3) @@ ("gb" :> 6) @@ ("ab" :> 8) @@
    ("bb" :> 10) @@ ("cb" :> 11) @@ ("fb" :> 4)

\* C6: get_note_index of a key of the enharmonic map returns an index in 0..11,
\* the same as get_note_index of the NOTE_ORDER spelling of that pitch, and an
\* entry of NOTE_ORDER resolves to its own position.
C6_EnharmonicEquivalence ==
    [][call'.fn = "get_note_index" =>
         /\ call'.note \in DOMAIN FlatPitchClass =>
               /\ ret'.index \in 0..11
               /\ (call.fn = "get_note_index"
                     /\ call.note = NOTE_ORDER[FlatPitchClass[call'.note] + 1]) =>
                        ret'.index = ret.index
         /\ call'.note \in Range(NOTE_ORDER) =>
               NOTE_ORDER[ret'.index + 1] = call'.note]_vars

C6_Witness ==
    /\ call.fn = "get_note_index" /\ call.note = "eb"
    /\ ret.index = 3
    /\ stdout = <<>>

----------------------------------------------------------------------------
(* Properties of the run (Spec)                                            *)

OctavesError == "Error: Number of octaves must be an integer between 1 and 4."

\* C7: a run whose octave count is outside 1..4 ends with the validation error
\* before anything else: no note lookup, no file is deleted or written, no
\* external tool is invoked.
C7_BadOctavesStopBeforeAnything ==
    /\ [](octaves \notin ValidOctaves =>
            /\ pc \in {"validate", "exit"}
            /\ events = <<>>
            /\ DOMAIN ly_notes = {}
            /\ stdout \in {<<>>, <<OctavesError>>}
            /\ pc = "exit" => (exit_code = 1 /\ stdout = <<OctavesError>>))
    /\ [][octaves \notin ValidOctaves => fs' = fs]_vars

C7_Witness ==
    /\ octaves = MAX_OCTAVES + 1
    /\ pc = "exit" /\ exit_code = 1
    /\ stdout = <<OctavesError>>
    /\ \E f \in FileNames : fs[f] = "old"

RecognizedScaleTypes == {"major", "minor", "harmonic_minor"}

ScaleTypeErrorMessage == "Error: Scale type is not supported."

\* C8: a scale type outside {major, minor, harmonic_minor} ends the process with
\* a diagnostic at its generate_lilypond call: no notes are produced, its score
\* file is not written and the typesetter is not invoked for it.
C8_UnsupportedScaleTypeIsFatal ==
    /\ [](\A st \in MainScaleTypes \ RecognizedScaleTypes :
            /\ (st \o "_scale.ly") \notin DOMAIN ly_notes
            /\ fs[st \o "_scale.ly"] # "new"
            /\ \A i \in 1..Len(events) :
                  events[i].arg \notin {st \o "_scale.ly", st \o "_scale.pdf"})
    /\ [][(pc = "generate" /\ scales_to_generate[loop_i] \notin RecognizedScaleTypes) =>
            /\ pc' = "exit" /\ exit_code' = 1
            /\ stdout'[Len(stdout')] = ScaleTypeErrorMessage
            /\ events' = events /\ ly_notes' = ly_notes /\ fs' = fs]_vars

C8_Witness ==
    /\ pc = "exit" /\ exit_code = 1
    /\ scales_to_generate = <<"major", "blues">>
    /\ loop_i = 2
    /\ stdout[Len(stdout)] = ScaleTypeErrorMessage
    /\ events = <<Event("write", "major_scale.ly", "ok"),
                  Event("lilypond", "major_scale.ly", "ok"),
                  Event("convert", "major_scale.pdf", "ok")>>

\* the output files of a run: <scale_type>_scale.ly/.pdf/.midi/.png for every
\* scale type to generate, and combined_scales.png
PredictableFiles ==
    {st \o "_scale" \o ext : st \in Range(scales_to_generate),
                             ext \in {".ly", ".pdf", ".midi", ".png"}}
        \cup {"combined_scales.png"}

WroteScore == \E i \in 1..Len(events) : events[i].op = "write"

DeleteErrors == {"Error deleting file: " \o f : f \in FileNames}

\* C9: once the run is past the deletion, and so whenever a score file has been
\* written, no predictable output file of an earlier run exists; after a failed
\* deletion the process has ended, nothing was written and no tool was invoked.
C9_DeletionPrecedesGeneration ==
    /\ (WroteScore \/ pc \in {"generate", "convert", "check_png", "combine", "finish", "done"}) =>
          \A f \in PredictableFiles : fs[f] # "old"
    /\ (\E i \in 1..Len(stdout) : stdout[i] \in DeleteErrors) =>
          /\ pc = "exit" /\ exit_code = 1
          /\ events = <<>>
          /\ DOMAIN ly_notes = {}
          /\ \A f \in FileNames : fs[f] # "new"
          /\ stdout[Len(stdout)] \in DeleteErrors

C9_Witness ==
    /\ WroteScore
    /\ \E i \in 1..Len(stdout) : stdout[i] = "Deleted existing file: major_scale.pdf"
    /\ \E i \in 1..Len(stdout) : stdout[i] = "Deleted existing file: combined_scales.png"
    /\ fs["major_scale.ly"] = "new"

FailedTool(e) == e.op \in {"lilypond", "convert"} /\ e.result # "ok"

\* the writes and invocations of a run in which every step succeeds
RECURSIVE SuccessfulEvents(_)
SuccessfulEvents(scale_types) ==
    IF scale_types = <<>> THEN <<Event("combine", "combined_scales.png", "ok")>>
    ELSE <<Event("write", Head(scale_types) \o "_scale.ly", "ok"),
           Event("lilypond", Head(scale_types) \o "_scale.ly", "ok"),
           Event("convert", Head(scale_types) \o "_scale.pdf", "ok")>>
            \o SuccessfulEvents(Tail(scale_types))

\* C10: a failed typesetter or converter invocation is the last thing the run
\* does (no retry, no later write, invocation or compositing; the process has
\* exited with code 1), and the success message is printed only after every
\* generate, compile, convert and combine step succeeded.
C10_ToolFailureIsFailFast ==
    /\ \A i \in 1..Len(events) :
          FailedTool(events[i]) =>
             /\ i = Len(events)
             /\ pc = "exit" /\ exit_code = 1
             /\ SuccessMessage \notin Range(stdout)
    /\ SuccessMessage \in Range(stdout) =>
          /\ events = SuccessfulEvents(scales_to_generate)
          /\ pc = "done"

C10_Witness ==
    /\ pc = "exit" /\ exit_code = 1
    /\ Len(scales_to_generate) = 2 /\ loop_i = 1
    /\ events = <<Event("write", scales_to_generate[1] \o "_scale.ly", "ok"),
                  Event("lilypond", scales_to_generate[1] \o "_scale.ly", "ok"),
                  Event("convert", scales_to_generate[1] \o "_scale.pdf", "nonzero")>>

----------------------------------------------------------------------------
(* Failure paths outside the main run (SpecErr): the pdf2image converter,  *)
(* the steps inside combine_images_with_text, and the run of testing.py.   *)
(* events records each step with its outcome; a step whose result is not   *)
(* "ok" is a failure.                                                      *)

MaxErrEvents == 3

InitErr ==
    /\ call = NoCall
    /\ ret = NoRet
    /\ pc = "fn"
    /\ stdout = <<>>
    /\ exit_code = -1
    /\ MainIdle

ErrUnchanged == UNCHANGED <<call, ret, key, octaves, scales_to_generate, loop_i, ly_notes>>

\* convert_pdf_to_png_using_pdf2image(pdf_file, png_file): result is what
\* convert_from_path / save did: pages saved, an empty page list, or an exception
CallConvertUsingPdf2image(scale_type, result) ==
    /\ pc = "fn"
    /\ Len(events) < MaxErrEvents
    /\ LET pdf_file == scale_type \o "_scale.pdf"
           png_file == scale_type \o "_scale.png"
           converting == Append(stdout, "Converting using pdf2image")
       IN
       /\ events' = Append(events, Event("pdf2image", pdf_file, result))
       /\ CASE result = "ok" ->
                 /\ fs' = [fs EXCEPT ![png_file] = "new"]
                 /\ stdout' = Append(converting, "Conversion successful.")
                 /\ UNCHANGED <<pc, exit_code>>
            [] result = "no_pages" ->
                 /\ stdout' = Append(converting, "No pages found")
                 /\ UNCHANGED <<fs, pc, exit_code>>
            [] result = "exception" ->
                 /\ stdout' = Append(converting, "An error occurred while converting")
                 /\ pc' = "exit"
                 /\ exit_code' = 1
                 /\ UNCHANGED fs
    /\ ErrUnchanged

\* combine_images_with_text(image1_path, image2_path, output_path, text), step
\* by step: Image.open, find_lowest_black_pixel, ImageFont.truetype (IOError is
\* caught and load_default used), drawing and save
CallCombineImagesWithText(open_result, lowest_result, font_result, save_result) ==
    /\ pc = "fn"
    /\ Len(events) < MaxErrEvents
    /\ LET output_path == "combined_scales.png"
           font_events == IF font_result = "ioerror"
                          THEN <<Event("truetype", "arial.ttf", "ioerror")>> ELSE <<>>
       IN
       IF open_result = "error"
       THEN /\ events' = Append(events, Event("open", "major_scale.png", "error"))
            /\ Fatal("Error combining images")
            /\ UNCHANGED fs
       ELSE IF lowest_result = "error"
       THEN /\ events' = Append(events, Event("find_lowest_black_pixel", "major_scale.png", "error"))
            /\ Fatal("Error processing image")
            /\ UNCHANGED fs
       ELSE IF save_result = "error"
       THEN /\ events' = events \o font_events \o <<Event("combine", output_path, "error")>>
            /\ Fatal("Error combining images")
            /\ UNCHANGED fs
       ELSE /\ events' = events \o font_events \o <<Event("combine", output_path, "ok")>>
            /\ fs' = [fs EXCEPT ![output_path] = "new"]
            /\ stdout' = Append(stdout, "Combined image saved")
            /\ UNCHANGED <<pc, exit_code>>
    /\ ErrUnchanged

\* testing.py, __main__: create_pdf_from_notes(my_notes, ...), a process of its
\* own.  invalid_note: note.Note(n) raises for a note of the list; xml_result:
\* outcome of s.write; musescore_exists: os.path.exists(musescore_path);
\* run_result: outcome of subprocess.run(command, check=True)
RunCreatePdfFromNotes(invalid_note, xml_result, musescore_exists, run_result) ==
    /\ pc = "fn"
    /\ events = <<>>
    /\ LET note_events == IF invalid_note THEN <<Event("note", "H9", "invalid")>> ELSE <<>>
           note_prints == IF invalid_note
                          THEN <<"Warning: not a valid note. Skipping.">> ELSE <<>>
       IN
       IF xml_result = "error"
       THEN /\ events' = note_events \o <<Event("write_xml", "simple_sheet.xml", "error")>>
            /\ stdout' = stdout \o note_prints \o
                            <<"Error generating MusicXML.",
                              "Failed to create MusicXML. Aborting PDF generation.">>
       ELSE IF ~musescore_exists
       THEN /\ events' = note_events \o <<Event("write_xml", "simple_sheet.xml", "ok"),
                                          Event("musescore", "simple_sheet.xml", "missing")>>
            /\ stdout' = stdout \o note_prints \o
                            <<"MusicXML successfully saved",
                              "Error: MuseScore executable not found",
                              "Failed to generate PDF.">>
       ELSE /\ events' = note_events \o <<Event("write_xml", "simple_sheet.xml", "ok"),
                                          Event("musescore", "simple_sheet.xml", run_result)>>
            /\ stdout' = stdout \o note_prints \o
                            (CASE run_result = "ok" ->
                                    <<"MusicXML successfully saved",
                                      "PDF successfully saved",
                                      "Sheet music PDF generated successfully.">>
                               [] run_result = "nonzero" ->
                                    <<"MusicXML successfully saved",
                                      "Error converting MusicXML to PDF.",
                                      "Failed to generate PDF.">>
                               [] run_result = "exception" ->
                                    <<"MusicXML successfully saved",
                                      "An unexpected error occurred during conversion.",
                                      "Failed to generate PDF.">>)
    /\ pc' = "done"
    /\ exit_code' = 0
    /\ UNCHANGED fs
    /\ ErrUnchanged

NextErr ==
    \/ \E scale_type \in MainScaleTypes, result \in {"ok", "no_pages", "exception"} :
          CallConvertUsingPdf2image(scale_type, result)
    \/ \E open_result \in {"ok", "error"}, lowest_result \in {"ok", "error"},
          font_result \in {"ok", "ioerror"}, save_result \in {"ok", "error"} :
          CallCombineImagesWithText(open_result, lowest_result, font_result, save_result)
    \/ \E invalid_note \in BOOLEAN, xml_result \in {"ok", "error"},
          musescore_exists \in BOOLEAN, run_result \in {"ok", "nonzero", "exception"} :
          RunCreatePdfFromNotes(invalid_note, xml_result, musescore_exists, run_result)

SpecErr == InitErr /\ [][NextErr]_vars

\* the messages the program prints on a failure
Diagnostics ==
    {"No pages found",
     "An error occurred while converting",
     "Error combining images",
     "Error processing image",
     "Warning: not a valid note. Skipping.",
     "Failed to create MusicXML. Aborting PDF generation.",
     "Failed to generate PDF."}

\* C11: no error is silently swallowed: every failed step is followed by a
\* diagnostic and is the last step the process takes (the process has ended
\* and the diagnostic is the last thing it printed).
C11_NoErrorSwallowed ==
    \A i \in 1..Len(events) :
        events[i].result # "ok" =>
            /\ i = Len(events)
            /\ pc \in {"exit", "done"}
            /\ Len(stdout) > 0
            /\ stdout[Len(stdout)] \in Diagnostics

====
